---- MODULE Spec2Model ----
(***************************************************************************)
(* Price tracker: the extraction engine (logic/scraper.js trackPrice), the *)
(* tracking job (jobs/tracker.js trackerJob), the product routes           *)
(* (routes/products.js POST / and GET /) and the store they share          *)
(* (BaseService, PricesService, ProductsService).                          *)
(*                                                                         *)
(* Texts are sequences of one-character strings.  A nullable value is a    *)
(* record with a "kind" field, so that null and non-null values compare.   *)
(***************************************************************************)
EXTENDS Integers, Sequences, FiniteSets, TLC

----------------------------------------------------------------------------
(* Bounds *)

MaxMainLen == 2
MaxFracLen == 2
MaxTitleLen == 1

MaxClock == 3

TicksPerDay == 2

MaxJobs == 2

MaxRuns == 2

MaxPosts == 1

MaxSeries == 3

----------------------------------------------------------------------------
(* Texts *)

Digits == <<"0", "1", "2", "3", "4", "5", "6", "7", "8", "9">>

IsDigit(c) == \E i \in 1..10 : Digits[i] = c

DigitVal(c) == (CHOOSE i \in 1..10 : Digits[i] = c) - 1

IsSpace(c) == c = " "

\* the characters the texts of the price span and of the fraction are
\* built from: digits, the dot, a letter, a blank
MainChars == {"3", "8", ".", "a", " "}

FracChars == {"9", "0", ".", "a", " "}

TitleChars == {"a", " "}

RECURSIVE TextsOver(_, _)
TextsOver(cs, n) ==
    IF n = 0 THEN {<<>>}
    ELSE LET shorter == TextsOver(cs, n - 1)
         IN  shorter \cup {Append(s, c) : s \in shorter, c \in cs}

RECURSIVE TrimStart(_)
TrimStart(s) ==
    IF s # <<>> /\ IsSpace(Head(s)) THEN TrimStart(Tail(s)) ELSE s

RECURSIVE TrimEnd(_)
TrimEnd(s) ==
    IF s # <<>> /\ IsSpace(s[Len(s)]) THEN TrimEnd(SubSeq(s, 1, Len(s) - 1)) ELSE s

\* String.prototype.trim
Trim(s) == TrimEnd(TrimStart(s))

----------------------------------------------------------------------------
(* Numbers: m / 10^e, kept with no trailing zero in the fraction.  NaN and *)
(* null are values of their own.                                           *)

Null == [kind |-> "null", m |-> 0, e |-> 0]

NaN == [kind |-> "nan", m |-> 0, e |-> 0]

RECURSIVE Normalize(_, _)
Normalize(m, e) ==
    IF e > 0 /\ m % 10 = 0 THEN Normalize(m \div 10, e - 1)
    ELSE [kind |-> "num", m |-> m, e |-> e]

Num(m, e) == Normalize(m, e)

\* length of the longest prefix of s made of digits
RECURSIVE DigitRun(_)
DigitRun(s) ==
    IF s # <<>> /\ IsDigit(Head(s)) THEN 1 + DigitRun(Tail(s)) ELSE 0

\* value of a run of digits read left to right, starting from acc
RECURSIVE Accumulate(_, _)
Accumulate(acc, s) ==
    IF s = <<>> THEN acc ELSE Accumulate(acc * 10 + DigitVal(Head(s)), Tail(s))

\* the global parseFloat on texts over Chars: leading white space is
\* skipped, then the longest prefix of the shape digits [. digits] or
\* . digits is read and whatever follows is ignored; no such prefix: NaN
ParseFloat(str) ==
    LET s == TrimStart(str)
        n == DigitRun(s)
        rest == SubSeq(s, n + 1, Len(s))
        f == IF rest # <<>> /\ Head(rest) = "." THEN DigitRun(Tail(rest)) ELSE 0
    IN  IF n = 0 /\ f = 0 THEN NaN
        ELSE Num(Accumulate(0, SubSeq(s, 1, n) \o SubSeq(rest, 2, f + 1)), f)

IsNaN(v) == v.kind = "nan"

----------------------------------------------------------------------------
(* Nullable texts *)

NullText == [kind |-> "null", s |-> <<>>]

Text(s) == [kind |-> "text", s |-> s]

----------------------------------------------------------------------------
(* Time: new Date().toISOString() reads the clock, which starts at 1; 0    *)
(* stands for a missing date.  A tracking period is a calendar day.        *)

NoDate == 0

Day(t) == (t - 1) \div TicksPerDay

----------------------------------------------------------------------------
(* Fingerprint *)

NoUrl == "<not a string>"

Urls == {"u1", "u2"}

IsString(url) == url # NoUrl

\* urls that differ in the text and address one resource
SlashUrls == {"u1", "u1/", "u2"}

\* the url without its trailing slash
Canonical(url) == IF url = "u1/" THEN "u1" ELSE url

\* a fingerprint of the normalized url
Sha256HexAsNormalized(url) == "sha256:" \o Canonical(url)

\* crypto.createHash('sha256').update(url).digest('hex'): the digest is
\* opaque and differs for different inputs
Sha256Hex(url) == "sha256:" \o url

----------------------------------------------------------------------------
(* What the web answers to axios.get(url), with the document reduced to    *)
(* what trackPrice's selectors read in it.                                 *)
(*   kind    "error": axios.get throws (timeout, DNS, non-2xx, transport)  *)
(*           "unparsable": the body makes cheerio.load throw               *)
(*           "html": a document                                            *)
(*   title   text of h1.page-heading span[data-test="title"], null when    *)
(*           no element matches                                            *)
(*   section whether section[data-test="prices"] matches                   *)
(*   span    whether span[data-test="price"] matches inside the section    *)
(*   main    the span's own text, children removed                         *)
(*   frac    text of sup[data-test="price-fraction"] in the span, empty    *)
(*           when there is none                                            *)

NoDoc == [title |-> NullText, section |-> FALSE, span |-> FALSE, main |-> <<>>, frac |-> <<>>]

Titles == {NullText} \cup {Text(s) : s \in TextsOver(TitleChars, MaxTitleLen)}

Docs ==
    {[title |-> t, section |-> FALSE, span |-> FALSE, main |-> <<>>, frac |-> <<>>] : t \in Titles}
    \cup {[title |-> t, section |-> TRUE, span |-> FALSE, main |-> <<>>, frac |-> <<>>] : t \in Titles}
    \cup {[title |-> t, section |-> TRUE, span |-> TRUE, main |-> m, frac |-> f] :
            t \in Titles, m \in TextsOver(MainChars, MaxMainLen), f \in TextsOver(FracChars, MaxFracLen)}

Responses ==
    {[kind |-> "error", doc |-> NoDoc], [kind |-> "unparsable", doc |-> NoDoc]}
    \cup {[kind |-> "html", doc |-> d] : d \in Docs}

----------------------------------------------------------------------------
(* trackPrice *)

Result(id, url, price, title, date) ==
    [kind |-> "result", id |-> id, url |-> url, price |-> price, title |-> title, date |-> date]

\* the call rejects: no result
Thrown == [kind |-> "thrown", id |-> "", url |-> "", price |-> Null, title |-> NullText, date |-> NoDate]

Pending == [kind |-> "pending", id |-> "", url |-> "", price |-> Null, title |-> NullText, date |-> NoDate]

\* the title read from the document
DocTitle(doc) ==
    IF doc.title.kind = "null" THEN NullText ELSE Text(Trim(doc.title.s))

\* the price read from the document
DocPrice(doc) ==
    IF ~doc.section THEN Null
    ELSE IF ~doc.span THEN Null
    ELSE LET mainPrice == Trim(doc.main)
             fraction == Trim(doc.frac)
             fullPrice == ParseFloat(mainPrice \o <<".">> \o fraction)
         IN  IF mainPrice = <<>> \/ fraction = <<>> THEN Null
             ELSE IF IsNaN(fullPrice) THEN Null
             ELSE fullPrice

\* trackPrice without its catch block: a failing fetch or parse escapes
trackPriceAsNoCatch(url, date0, resp, date1) ==
    IF ~IsString(url) THEN Thrown
    ELSE IF resp.kind # "html" THEN Thrown
    ELSE Result(Sha256Hex(url), url, DocPrice(resp.doc), DocTitle(resp.doc), date0)

\* trackPrice whose catch block does not compute the id again
trackPriceAsNoIdOnError(url, date0, resp, date1) ==
    IF ~IsString(url) THEN Thrown
    ELSE IF resp.kind # "html" THEN Result("", url, Null, NullText, date1)
    ELSE Result(Sha256Hex(url), url, DocPrice(resp.doc), DocTitle(resp.doc), date0)

\* trackPrice whose early returns drop the title
trackPriceAsTitleLost(url, date0, resp, date1) ==
    IF ~IsString(url) THEN Thrown
    ELSE IF resp.kind # "html" THEN Result(Sha256Hex(url), url, Null, NullText, date1)
    ELSE IF DocPrice(resp.doc) = Null THEN Result(Sha256Hex(url), url, Null, NullText, date0)
    ELSE Result(Sha256Hex(url), url, DocPrice(resp.doc), DocTitle(resp.doc), date0)

\* trackPrice(url) when the call started at time date0 and axios.get
\* answered resp at time date1.  A url that is not a string makes
\* update(url) throw in the try block and again in the catch block.
trackPrice(url, date0, resp, date1) ==
    IF ~IsString(url) THEN Thrown
    ELSE IF resp.kind # "html" THEN Result(Sha256Hex(url), url, Null, NullText, date1)
    ELSE Result(Sha256Hex(url), url, DocPrice(resp.doc), DocTitle(resp.doc), date0)

----------------------------------------------------------------------------
(* State *)

VARIABLES
    clock,     \* the wall clock, in ticks
    tp,        \* one call of trackPrice: [pc, url, date0, resp, res]
    products,  \* the products table, in insertion order
    prices,    \* the prices table, in insertion order
    job,       \* the calls of trackerJob in progress or just over
    nruns,     \* the number of calls of trackerJob so far
    post,      \* the POST /api/products request being served
    get,       \* the GET /api/products request being served
    seen       \* history: <<url, id, kind of answer>> of the results of trackPrice

vars == <<clock, tp, products, prices, job, nruns, post, get, seen>>

Jobs == 1..MaxJobs

----------------------------------------------------------------------------
(* The store *)

ProductRow(id, url) == [id |-> id, url |-> url, deleted |-> FALSE]

\* run is a history field: the run of trackerJob that wrote the row, 0 for
\* a row written by POST /api/products
PriceRow(price, run) == [product_id |-> price.product_id, price |-> price.price,
                         currency |-> price.currency, date |-> price.date,
                         deleted |-> FALSE, run |-> run]

\* getAll without .is('deleted_at', null)
GetAllAsWithDeleted(table) == table

\* BaseService.getAll without options: the rows that are not soft-deleted
GetAll(table) == SelectSeq(table, LAMBDA r : ~r.deleted)

\* a date filter that matches no row
GetAllByDateAsNone(table, date) == SelectSeq(table, LAMBDA r : FALSE)

\* BaseService.getAll with filters { date }
GetAllByDate(table, date) == SelectSeq(table, LAMBDA r : ~r.deleted /\ r.date = date)

\* BaseService.findBy('url', url)
FindByUrl(table, url) == SelectSeq(table, LAMBDA r : ~r.deleted /\ r.url = url)

\* ProductsService.getByUrl
NoProduct == [id |-> "", url |-> NoUrl, deleted |-> TRUE]

\* getByUrl that finds nothing
GetByUrlAsNull(table, url) == NoProduct

GetByUrl(table, url) ==
    LET found == FindByUrl(table, url)
    IN  IF Len(found) > 0 THEN found[1] ELSE NoProduct

\* an insert that overwrites the row the product already has
InsertAsUpsert(table, row) ==
    IF \E n \in 1..Len(table) : table[n].product_id = row.product_id
    THEN [table EXCEPT ![CHOOSE n \in 1..Len(table) : table[n].product_id = row.product_id] = row]
    ELSE Append(table, row)

\* BaseService.create: .insert(record) adds a row to the table
Insert(table, row) == Append(table, row)

\* createPrice that dates the row itself
createPriceAsNow(priceData, now) ==
    [product_id |-> priceData.product_id,
     price |-> priceData.price,
     currency |-> IF priceData.currency # "" THEN priceData.currency ELSE "null",
     date |-> now]

\* the record PricesService.createPrice inserts
createPrice(priceData, now) ==
    [product_id |-> priceData.product_id,
     price |-> priceData.price,
     currency |-> IF priceData.currency # "" THEN priceData.currency ELSE "null",
     date |-> IF priceData.date # NoDate THEN priceData.date ELSE now]

----------------------------------------------------------------------------
(* trackerJob *)

\* the pages the tracked shops answer with
GoodPage == [kind |-> "html", doc |-> [title |-> Text(<<"a">>), section |-> TRUE, span |-> TRUE,
                                       main |-> <<"3", "8">>, frac |-> <<"9", "0">>]]

NoPricePage == [kind |-> "html", doc |-> [title |-> Text(<<"a">>), section |-> FALSE, span |-> FALSE,
                                          main |-> <<>>, frac |-> <<>>]]

Pages == {[kind |-> "error", doc |-> NoDoc], GoodPage, NoPricePage}

JobIdle == [pc |-> "idle", run |-> 0, products |-> <<>>, qdate |-> NoDate, prices |-> <<>>,
            toTrack |-> <<>>, i |-> 0, date0 |-> NoDate, res |-> Pending,
            log |-> <<>>, prior |-> {}, err |-> "none", calls |-> <<>>, fetched |-> 0]

Ids(rows) == {rows[k].id : k \in 1..Len(rows)}

\* lines 14-17 with the filter turned around
ProductsToTrackAsWith(prods, loaded) ==
    LET productIdsWithPrices == {loaded[k].product_id : k \in 1..Len(loaded)}
    IN  SelectSeq(prods, LAMBDA product : product.id \in productIdsWithPrices)

\* lines 14-17: the listed products without a loaded price
ProductsToTrack(prods, loaded) ==
    LET productIdsWithPrices == {loaded[k].product_id : k \in 1..Len(loaded)}
    IN  SelectSeq(prods, LAMBDA product : product.id \notin productIdsWithPrices)

\* an outer catch that starts the run over
OuterCatchAsRetry(j, err) == [j EXCEPT !.pc = "getAll", !.err = err]

\* an outer catch that only logs
OuterCatchAsSwallow(j, err) == [j EXCEPT !.pc = "resolved", !.err = err]

\* the outer catch: the error is logged and thrown again
OuterCatch(j, err) == [j EXCEPT !.pc = "rejected", !.err = err]

\* a step of the for loop without the inner try/catch
InnerCatchAsNone(j, entry) == [OuterCatch(j, "loop") EXCEPT !.log = Append(@, entry)]

\* the inner catch: the error is logged, the loop continues
InnerCatch(j, entry) == [j EXCEPT !.log = Append(@, entry)]

LogEntry(product, price, outcome) == [id |-> product.id, price |-> price, outcome |-> outcome]

\* line 25 with the test left out
ShouldCreateAsAlways(scrapedData) == TRUE

\* line 25: a price was scraped
ShouldCreate(scrapedData) == scrapedData.price # Null

\* a loop that takes the same product again when it got no price
NextProductAsRetry(j, entry) == IF entry.price = Null THEN j.i ELSE j.i + 1

\* for...of: the product the loop takes after the one that ended with entry
NextProduct(j, entry) == j.i + 1

\* the for loop from product i on, up to its next await: trackPrice is
\* called on product i; a call that throws is caught and the loop goes on.
\* calls is a history field: the products trackPrice was called for.
RECURSIVE Loop(_, _, _)
Loop(j, i, now) ==
    IF j.pc = "rejected" THEN j
    ELSE IF i > Len(j.toTrack)
         THEN [j EXCEPT !.pc = "resolved", !.i = i, !.date0 = NoDate, !.res = Pending]
    ELSE IF ~IsString(j.toTrack[i].url)
         THEN Loop(InnerCatch([j EXCEPT !.calls = Append(@, i)], LogEntry(j.toTrack[i], Null, "threw")),
                   i + 1, now)
    ELSE [j EXCEPT !.pc = "fetching", !.i = i, !.date0 = now, !.res = Pending,
                   !.calls = Append(@, i)]

\* createPrice called without await: the loop goes on at once
AwaitCreateAsNotAwaited(j, scrapedData, now) == Loop([j EXCEPT !.res = scrapedData], j.i + 1, now)

\* await pricesService.createPrice(...): the run waits for the answer
AwaitCreate(j, scrapedData, now) == [j EXCEPT !.pc = "creating", !.res = scrapedData]

Running(j) == j.pc \in {"getAll", "getPrices", "fetching", "creating"}

\* the runs that are over
Over == (1..nruns) \ {job[k].run : k \in {k \in Jobs : Running(job[k])}}

\* trackerJob is called, for the (nruns + 1)-th time; it awaits
\* productsService.getAll().  The call takes the first place that holds no
\* call in progress.
JobStart(r) ==
    /\ nruns < MaxRuns
    /\ ~Running(job[r])
    /\ \A k \in Jobs : k < r => Running(job[k])
    /\ job' = [job EXCEPT ![r] = [JobIdle EXCEPT !.pc = "getAll", !.run = nruns + 1, !.prior = Over]]
    /\ nruns' = nruns + 1
    /\ UNCHANGED <<clock, tp, products, prices, post, get, seen>>

\* productsService.getAll() answers; pricesService.getAllPricesByDate()
\* is called with the date of now
JobGetAllProducts(r) ==
    /\ job[r].pc = "getAll"
    /\ \/ job' = [job EXCEPT ![r] = [@ EXCEPT !.pc = "getPrices",
                                             !.products = GetAll(products),
                                             !.qdate = clock]]
       \/ job' = [job EXCEPT ![r] = OuterCatch(@, "getAll")]
    /\ UNCHANGED <<clock, tp, products, prices, nruns, post, get, seen>>

\* getAllPricesByDate answers; productsToTrack is computed and the loop
\* runs up to its first await
JobGetPrices(r) ==
    /\ job[r].pc = "getPrices"
    /\ \/ LET loaded == GetAllByDate(prices, job[r].qdate)
              toTrack == ProductsToTrack(job[r].products, loaded)
          IN  job' = [job EXCEPT ![r] = Loop([@ EXCEPT !.prices = loaded, !.toTrack = toTrack], 1, clock)]
       \/ job' = [job EXCEPT ![r] = OuterCatch(@, "getPrices")]
    /\ UNCHANGED <<clock, tp, products, prices, nruns, post, get, seen>>

\* axios.get settles in trackPrice: the job gets scrapedData and either
\* calls createPrice or skips the product.  fetched is a history field:
\* the number of fetches of this run that have settled.
JobFetchReturn(r) ==
    /\ job[r].pc = "fetching"
    /\ \E resp \in Pages :
         LET j == [job[r] EXCEPT !.fetched = @ + 1]
             product == j.toTrack[j.i]
             scrapedData == trackPrice(product.url, j.date0, resp, clock)
             threw == LogEntry(product, Null, "threw")
             skipped == LogEntry(product, scrapedData.price, "skipped")
         IN  job' = [job EXCEPT ![r] =
                 IF scrapedData.kind = "thrown"
                 THEN Loop(InnerCatch(j, threw), NextProduct(j, threw), clock)
                 ELSE IF ShouldCreate(scrapedData)
                 THEN AwaitCreate(j, scrapedData, clock)
                 ELSE Loop([j EXCEPT !.log = Append(@, skipped)], NextProduct(j, skipped), clock)]
    /\ UNCHANGED <<clock, tp, products, prices, nruns, post, get, seen>>

\* pricesService.createPrice answers: the row is inserted, or the insert
\* failed and the error is caught
JobCreatePrice(r) ==
    /\ job[r].pc = "creating"
    /\ LET j == job[r]
           product == j.toTrack[j.i]
           priceData == [product_id |-> product.id, price |-> j.res.price,
                         currency |-> "EUR", date |-> j.res.date]
           created == LogEntry(product, j.res.price, "created")
           createFailed == LogEntry(product, j.res.price, "createFailed")
       IN  \/ /\ prices' = Insert(prices, PriceRow(createPrice(priceData, clock), j.run))
              /\ job' = [job EXCEPT ![r] =
                     Loop([j EXCEPT !.log = Append(@, created)], NextProduct(j, created), clock)]
           \/ /\ prices' = prices
              /\ job' = [job EXCEPT ![r] =
                     Loop(InnerCatch(j, createFailed), NextProduct(j, createFailed), clock)]
    /\ UNCHANGED <<clock, tp, products, nruns, post, get, seen>>

----------------------------------------------------------------------------
(* POST /api/products *)

\* the rows of the prices table written by POST /api/products
PostRows == {n \in 1..Len(prices) : prices[n].run = 0}

\* existing, products0 and prices0 are history fields: whether an active
\* product had the url when getByUrl answered, and the number of products
\* and of rows written by requests when the request arrived
PostIdle == [pc |-> "idle", url |-> NoUrl, date0 |-> NoDate, res |-> Pending,
             product |-> NoProduct, status |-> 0, n |-> 0,
             existing |-> FALSE, products0 |-> 0, prices0 |-> 0]

\* a request with a valid body arrives; productsService.getByUrl is called
PostRequest ==
    /\ post.pc \in {"idle", "responded"}
    /\ post.n < MaxPosts
    /\ \E url \in Urls :
         post' = [PostIdle EXCEPT !.pc = "getByUrl", !.url = url, !.n = post.n + 1,
                                  !.products0 = Len(products), !.prices0 = Cardinality(PostRows)]
    /\ UNCHANGED <<clock, tp, products, prices, job, nruns, get, seen>>

\* getByUrl answers: an existing product is a bad request, otherwise
\* trackPrice is called
PostGetByUrl ==
    /\ post.pc = "getByUrl"
    /\ \/ LET existingProduct == GetByUrl(products, post.url)
              existing == \E n \in 1..Len(products) : products[n].url = post.url /\ ~products[n].deleted
          IN  post' = IF existingProduct # NoProduct
                      THEN [post EXCEPT !.pc = "responded", !.status = 400, !.existing = existing]
                      ELSE [post EXCEPT !.pc = "fetching", !.date0 = clock, !.existing = existing]
       \/ post' = [post EXCEPT !.pc = "responded", !.status = 500]
    /\ UNCHANGED <<clock, tp, products, prices, job, nruns, get, seen>>

\* trackPrice returns; productsService.createProduct is called
PostFetchReturn ==
    /\ post.pc = "fetching"
    /\ \E resp \in Pages :
         post' = [post EXCEPT !.pc = "createProduct",
                              !.res = trackPrice(post.url, post.date0, resp, clock)]
    /\ UNCHANGED <<clock, tp, products, prices, job, nruns, get, seen>>

\* createProduct answers; with a scraped price createPrice is called
PostCreateProduct ==
    /\ post.pc = "createProduct"
    /\ \/ LET product == ProductRow(post.res.id, post.res.url)
          IN  /\ products' = Append(products, product)
              /\ post' = IF post.res.price # Null
                         THEN [post EXCEPT !.pc = "createPrice", !.product = product]
                         ELSE [post EXCEPT !.pc = "responded", !.product = product, !.status = 200]
       \/ /\ products' = products
          /\ post' = [post EXCEPT !.pc = "responded", !.status = 500]
    /\ UNCHANGED <<clock, tp, prices, job, nruns, get, seen>>

\* createPrice answers
PostCreatePrice ==
    /\ post.pc = "createPrice"
    /\ LET priceData == [product_id |-> post.product.id, price |-> post.res.price,
                         currency |-> "EUR", date |-> post.res.date]
       IN  \/ /\ prices' = Insert(prices, PriceRow(createPrice(priceData, clock), 0))
              /\ post' = [post EXCEPT !.pc = "responded", !.status = 200]
           \/ /\ prices' = prices
              /\ post' = [post EXCEPT !.pc = "responded", !.status = 500]
    /\ UNCHANGED <<clock, tp, products, job, nruns, get, seen>>

----------------------------------------------------------------------------
(* GET /api/products *)

\* no row: null
NoRow == 0

\* the rows a query for the prices of a product matches, as positions in
\* the table: filters { product_id } and deleted_at null
SeriesOf(table, productId) ==
    {n \in 1..Len(table) : ~table[n].deleted /\ table[n].product_id = productId}

\* orderBy date descending: the orders the database may answer in, rows
\* of one date in any order
OrderedByDateDesc(table, rows) ==
    {o \in [1..Cardinality(rows) -> rows] :
        /\ \A k1, k2 \in 1..Cardinality(rows) : k1 < k2 =>
             (o[k1] # o[k2] /\ table[o[k1]].date >= table[o[k2]].date)}

\* PricesService.getByProductId with a limit: the answers the database may give
getByProductId(table, productId, limit) ==
    {SubSeq(o, 1, IF Len(o) < limit THEN Len(o) ELSE limit) :
        o \in OrderedByDateDesc(table, SeriesOf(table, productId))}

\* PricesService.getLatestPrice
getLatestPrice(table, productId) ==
    {IF Len(ps) > 0 THEN ps[1] ELSE NoRow : ps \in getByProductId(table, productId, 1)}

\* getPreviousPrice that answers the first row
getPreviousPriceAsFirst(table, productId) ==
    {IF Len(ps) > 1 THEN ps[1] ELSE NoRow : ps \in getByProductId(table, productId, 2)}

\* PricesService.getPreviousPrice
getPreviousPrice(table, productId) ==
    {IF Len(ps) > 1 THEN ps[2] ELSE NoRow : ps \in getByProductId(table, productId, 2)}

RECURSIVE Pow10(_)
Pow10(n) == IF n = 0 THEN 1 ELSE 10 * Pow10(n - 1)

\* a price in arithmetic: null counts as 0
ToNumber(v) == IF v.kind = "null" THEN Num(0, 0) ELSE v

\* num / den cut to an integer
ToFixedAsFloor(num, den) == num \div den

\* the integer nearest to num / den, den > 0, the half away from zero:
\* the digits toFixed keeps
ToFixed(num, den) ==
    IF num >= 0 THEN (2 * num + den) \div (2 * den)
    ELSE 0 - ((2 * (0 - num) + den) \div (2 * den))

\* parseFloat(x.toFixed(2)) for x = ((l - p) / p) * 100, in exact
\* arithmetic: x * 100 = 10000 * (l - p) / p
Percent(l, p) ==
    LET num == 10000 * (l.m * Pow10(p.e) - p.m * Pow10(l.e))
        den == p.m * Pow10(l.e)
    IN  IF den > 0 THEN Num(ToFixed(num, den), 2) ELSE Num(ToFixed(0 - num, 0 - den), 2)

\* priceChangeRate for the rows at positions latestPrice and previousPrice
priceChangeRate(table, latestPrice, previousPrice) ==
    IF /\ latestPrice # NoRow
       /\ previousPrice # NoRow
       /\ table[previousPrice].price # Null
       /\ table[previousPrice].price # Num(0, 0)
    THEN Percent(ToNumber(table[latestPrice].price), table[previousPrice].price)
    ELSE Null

GetIdle == [pc |-> "idle", products |-> <<>>, chain |-> <<>>, status |-> 0]

\* the callback of products.map for one product: it awaits getLatestPrice
ChainStart == [pc |-> "latest", latestPrice |-> NoRow, previousPrice |-> NoRow, priceChangeRate |-> Null]

\* a request arrives; productsService.getAll is called
GetRequest ==
    /\ get.pc \in {"idle", "responded"}
    /\ get' = [GetIdle EXCEPT !.pc = "getAll"]
    /\ UNCHANGED <<clock, tp, products, prices, job, nruns, post, seen>>

\* getAll answers: the callbacks start, one for each product
GetListProducts ==
    /\ get.pc = "getAll"
    /\ \/ LET listed == GetAll(products)
          IN  get' = IF listed = <<>>
                     THEN [get EXCEPT !.pc = "responded", !.status = 200]
                     ELSE [get EXCEPT !.pc = "enrich", !.products = listed,
                                      !.chain = [k \in 1..Len(listed) |-> ChainStart]]
       \/ get' = [get EXCEPT !.pc = "responded", !.status = 500]
    /\ UNCHANGED <<clock, tp, products, prices, job, nruns, post, seen>>

\* getLatestPrice answers in the callback of product k, which calls
\* getPreviousPrice; a query that fails rejects Promise.all
GetLatestPrice(k) ==
    /\ get.pc = "enrich"
    /\ k \in 1..Len(get.chain)
    /\ get.chain[k].pc = "latest"
    /\ \/ \E latestPrice \in getLatestPrice(prices, get.products[k].id) :
            get' = [get EXCEPT !.chain[k].pc = "previous", !.chain[k].latestPrice = latestPrice]
       \/ get' = [get EXCEPT !.pc = "responded", !.status = 500]
    /\ UNCHANGED <<clock, tp, products, prices, job, nruns, post, seen>>

\* getPreviousPrice answers in the callback of product k, which computes
\* priceChangeRate and returns; the last callback to return resolves
\* Promise.all and the response is sent
GetPreviousPrice(k) ==
    /\ get.pc = "enrich"
    /\ k \in 1..Len(get.chain)
    /\ get.chain[k].pc = "previous"
    /\ \/ \E previousPrice \in getPreviousPrice(prices, get.products[k].id) :
            LET rate == priceChangeRate(prices, get.chain[k].latestPrice, previousPrice)
                last == \A n \in 1..Len(get.chain) : n # k => get.chain[n].pc = "done"
            IN  get' = [get EXCEPT !.chain[k] = [pc |-> "done", latestPrice |-> @.latestPrice,
                                                 previousPrice |-> previousPrice,
                                                 priceChangeRate |-> rate],
                                   !.pc = IF last THEN "responded" ELSE @,
                                   !.status = IF last THEN 200 ELSE @]
       \/ get' = [get EXCEPT !.pc = "responded", !.status = 500]
    /\ UNCHANGED <<clock, tp, products, prices, job, nruns, post, seen>>

----------------------------------------------------------------------------
(* One call of trackPrice on its own *)

TpIdle == [pc |-> "idle", url |-> NoUrl, date0 |-> NoDate, resp |-> [kind |-> "error", doc |-> NoDoc], res |-> Pending]

\* time passes
Tick ==
    /\ clock < MaxClock
    /\ clock' = clock + 1
    /\ UNCHANGED <<tp, products, prices, job, nruns, post, get, seen>>

\* trackPrice is called: id and date are computed, axios.get is issued
TrackPriceCall ==
    /\ tp.pc = "idle"
    /\ \E url \in Urls \cup {NoUrl} :
         tp' = IF IsString(url)
               THEN [tp EXCEPT !.pc = "fetching", !.url = url, !.date0 = clock]
               ELSE [tp EXCEPT !.pc = "returned", !.url = url, !.date0 = clock,
                               !.res = trackPrice(url, clock, tp.resp, clock)]
    /\ UNCHANGED <<clock, products, prices, job, nruns, post, get, seen>>

\* what a call adds to the results returned so far
Seen(url, resp, res) == IF res.kind = "result" THEN {<<url, res.id, resp.kind>>} ELSE {}

\* axios.get settles and trackPrice runs to its return
TrackPriceReturn ==
    /\ tp.pc = "fetching"
    /\ \E resp \in Responses :
         LET res == trackPrice(tp.url, tp.date0, resp, clock)
         IN  /\ tp' = [tp EXCEPT !.pc = "returned", !.resp = resp, !.res = res]
             /\ seen' = seen \cup Seen(tp.url, resp, res)
    /\ UNCHANGED <<clock, products, prices, job, nruns, post, get>>

\* axios.get settles, with one of the pages of the tracked shops or with
\* a body that cannot be parsed
TrackPriceReturnPage ==
    /\ tp.pc = "fetching"
    /\ \E resp \in Pages \cup {[kind |-> "unparsable", doc |-> NoDoc]} :
         LET res == trackPrice(tp.url, tp.date0, resp, clock)
         IN  /\ tp' = [tp EXCEPT !.pc = "returned", !.resp = resp, !.res = res]
             /\ seen' = seen \cup Seen(tp.url, resp, res)
    /\ UNCHANGED <<clock, products, prices, job, nruns, post, get>>

\* trackPrice is called once more
TrackPriceAgain ==
    /\ tp.pc = "returned"
    /\ \E url \in SlashUrls :
         tp' = [TpIdle EXCEPT !.pc = "fetching", !.url = url, !.date0 = clock]
    /\ UNCHANGED <<clock, products, prices, job, nruns, post, get, seen>>

TickFetching == tp.pc = "fetching" /\ Tick

----------------------------------------------------------------------------
(* Specifications *)

\* the products table when the server starts: one product; or a row
\* without url, and two products; or a product and a soft-deleted one
SeedTables ==
    {<<ProductRow(Sha256Hex("u1"), "u1")>>,
     <<ProductRow("p0", NoUrl), ProductRow(Sha256Hex("u1"), "u1"), ProductRow(Sha256Hex("u2"), "u2")>>,
     <<ProductRow(Sha256Hex("u1"), "u1"), [ProductRow(Sha256Hex("u2"), "u2") EXCEPT !.deleted = TRUE]>>}

Init ==
    /\ clock = 1
    /\ tp = TpIdle
    /\ products \in SeedTables
    /\ prices = <<>>
    /\ job = [r \in Jobs |-> JobIdle]
    /\ nruns = 0
    /\ post = PostIdle
    /\ get = GetIdle
    /\ seen = {}

JobStep ==
    \E r \in Jobs :
        \/ JobGetAllProducts(r)
        \/ JobGetPrices(r)
        \/ JobFetchReturn(r)
        \/ JobCreatePrice(r)

PostStep ==
    \/ PostGetByUrl
    \/ PostFetchReturn
    \/ PostCreateProduct
    \/ PostCreatePrice

\* no run of trackerJob is in progress
NoRun == \A r \in Jobs : ~Running(job[r])

\* the scheduler starts a run when the previous one is over
JobStartNext == NoRun /\ \E r \in Jobs : JobStart(r)

\* runs one after the other, requests at any time
Next ==
    \/ Tick
    \/ JobStartNext
    \/ JobStep
    \/ PostRequest
    \/ PostStep

Spec == Init /\ [][Next]_vars

\* nothing is in progress
Quiet ==
    /\ NoRun
    /\ post.pc \in {"idle", "responded"}

JobStartSeq == Quiet /\ \E r \in Jobs : JobStart(r)

PostRequestSeq == Quiet /\ PostRequest

\* runs and requests one after the other
NextSeq ==
    \/ Tick
    \/ JobStartSeq
    \/ JobStep
    \/ PostRequestSeq
    \/ PostStep

SpecSeq == Init /\ [][NextSeq]_vars

\* cron fires at 12:15 every day, whether or not a run is in progress: a
\* run starts while the runs in progress are runs that listed on an
\* earlier day
JobStartCron ==
    /\ \A k \in Jobs : Running(job[k]) =>
         (job[k].qdate # NoDate /\ Day(job[k].qdate) < Day(clock))
    /\ \E r \in Jobs : JobStart(r)

NextOverlap ==
    \/ Tick
    \/ JobStartCron
    \/ JobStep

SpecOverlap == Init /\ [][NextOverlap]_vars

\* every listing, fetch and insert a run waits for is answered in the end
Answered ==
    \A r \in Jobs :
        /\ WF_vars(JobGetAllProducts(r))
        /\ WF_vars(JobGetPrices(r))
        /\ WF_vars(JobFetchReturn(r))
        /\ WF_vars(JobCreatePrice(r))

SpecLive == Init /\ [][NextOverlap]_vars /\ Answered

\* the prices a row of the table may hold: null, 0, 3, 20, 25, 38.9
PriceValues == {Null, Num(0, 0), Num(3, 0), Num(20, 0), Num(25, 0), Num(389, 1)}

StoredRow(productId, price, date, deleted) ==
    [PriceRow([product_id |-> productId, price |-> price, currency |-> "EUR", date |-> date], 0)
        EXCEPT !.deleted = deleted]

\* tables of one or two rows of one product, of any price, on two dates
RateTables ==
    {<<StoredRow(Sha256Hex("u1"), p, 1, FALSE)>> : p \in PriceValues}
    \cup {<<StoredRow(Sha256Hex("u1"), p, d, FALSE), StoredRow(Sha256Hex("u1"), q, 3 - d, FALSE)>> :
            p \in PriceValues, q \in PriceValues, d \in 1..2}

RECURSIVE TablesOver(_, _)
TablesOver(rows, n) ==
    IF n = 0 THEN {<<>>}
    ELSE LET shorter == TablesOver(rows, n - 1)
         IN  shorter \cup {Append(t, r) : t \in shorter, r \in rows}

\* tables of up to MaxSeries rows of two products, one price, on any
\* date, soft-deleted or not
SeriesTables ==
    TablesOver({StoredRow(Sha256Hex(u), Num(20, 0), d, del) :
                    u \in Urls, d \in 1..MaxClock, del \in BOOLEAN}, MaxSeries)

\* the tables when a request arrives: any products with a table of
\* prices of one product, or one product with a table of rows of two
InitGet ==
    /\ clock = 1
    /\ tp = TpIdle
    /\ \/ products \in SeedTables /\ prices \in RateTables
       \/ products = <<ProductRow(Sha256Hex("u1"), "u1")>> /\ prices \in SeriesTables
    /\ job = [r \in Jobs |-> JobIdle]
    /\ nruns = 0
    /\ post = PostIdle
    /\ get = GetIdle
    /\ seen = {}

NextGet ==
    \/ GetRequest
    \/ GetListProducts
    \/ \E k \in 1..Len(get.chain) : GetLatestPrice(k)
    \/ \E k \in 1..Len(get.chain) : GetPreviousPrice(k)

SpecGet == InitGet /\ [][NextGet]_vars

\* the prices table at tick 2: empty, or one sample of tick 1
RaceTables ==
    {<<>>} \cup {<<StoredRow(Sha256Hex("u1"), p, 1, FALSE)>> : p \in {Num(20, 0), Num(25, 0)}}

InitRace ==
    /\ clock = 2
    /\ tp = TpIdle
    /\ products = <<ProductRow(Sha256Hex("u1"), "u1")>>
    /\ prices \in RaceTables
    /\ job = [r \in Jobs |-> JobIdle]
    /\ nruns = 0
    /\ post = PostIdle
    /\ get = GetIdle
    /\ seen = {}

\* requests served while runs of trackerJob go on
NextRace ==
    \/ NextGet
    \/ Tick
    \/ JobStartNext
    \/ JobStep

SpecRace == InitRace /\ [][NextRace]_vars

InitScrape ==
    /\ clock = 1
    /\ tp = TpIdle
    /\ products = <<>>
    /\ prices = <<>>
    /\ job = [r \in Jobs |-> JobIdle]
    /\ nruns = 0
    /\ post = PostIdle
    /\ get = GetIdle
    /\ seen = {}

NextScrape == TrackPriceCall \/ TickFetching \/ TrackPriceReturn

SpecScrape == InitScrape /\ [][NextScrape]_vars

\* calls of trackPrice one after the other
NextAgain == TrackPriceCall \/ TickFetching \/ TrackPriceReturnPage \/ TrackPriceAgain

SpecAgain == InitScrape /\ [][NextAgain]_vars

----------------------------------------------------------------------------
(* Properties of trackPrice, checked under SpecScrape *)

Returned == tp.pc = "returned"

\* raw is t with blanks added in front and behind
IsTrimOf(t, raw) ==
    /\ t = <<>> \/ (~IsSpace(t[1]) /\ ~IsSpace(t[Len(t)]))
    /\ \E i \in 0..Len(raw) :
         /\ i + Len(t) <= Len(raw)
         /\ \A k \in 1..Len(raw) :
              IF k > i /\ k <= i + Len(t) THEN raw[k] = t[k - i] ELSE IsSpace(raw[k])

AllDigits(s) == s # <<>> /\ \A k \in 1..Len(s) : IsDigit(s[k])

RECURSIVE NatOf(_)
NatOf(s) == IF s = <<>> THEN 0 ELSE 10 * NatOf(SubSeq(s, 1, Len(s) - 1)) + DigitVal(s[Len(s)])

\* v is the number written "{int}.{frac}", for texts of digits
IsDecimalValue(v, int, frac) ==
    /\ v.kind = "num"
    /\ v.m * Pow10(Len(frac)) = (NatOf(int) * Pow10(Len(frac)) + NatOf(frac)) * Pow10(v.e)

\* C7: a call of trackPrice on a url string returns a result, never
\* raises, whatever the fetch and the parse do, and the result carries an
\* id and a date: the fingerprint of the url and a reading of the clock
\* taken during the call.
C7_ExtractionTotal ==
    (Returned /\ IsString(tp.url)) =>
        /\ tp.res.kind = "result"
        /\ tp.res.id = Sha256Hex(tp.url)
        /\ tp.res.date # NoDate
        /\ tp.res.date \in tp.date0..clock

C7_Witness ==
    /\ Returned
    /\ IsString(tp.url)
    /\ tp.resp.kind = "unparsable"
    /\ tp.res.kind = "result"

\* C8: when the fetch fails the result has price null and title null, the
\* url of the call and the fingerprint of that url as id.
C8_FetchFailure ==
    (Returned /\ IsString(tp.url) /\ tp.resp.kind = "error") =>
        /\ tp.res.kind = "result"
        /\ tp.res.price = Null
        /\ tp.res.title = NullText
        /\ tp.res.url = tp.url
        /\ tp.res.id = Sha256Hex(tp.url)

C8_Witness ==
    /\ Returned
    /\ tp.resp.kind = "error"
    /\ tp.url = "u2"
    /\ tp.res.price = Null
    /\ clock > tp.date0

\* the title of the result is the text of the document's title element
\* without the blanks around it, and null exactly when there is no element
TitleKept ==
    IF tp.resp.doc.title.kind = "null" THEN tp.res.title = NullText
    ELSE /\ tp.res.title.kind = "text"
         /\ IsTrimOf(tp.res.title.s, tp.resp.doc.title.s)

\* C9: when the prices region or the price element is absent, or the
\* integer part or the fraction part is empty, the result has price null
\* and still the title read from the document; and a document without
\* title element whose parts are texts of digits gives a non-null price.
C9_ShortCircuitKeepsTitle ==
    (Returned /\ tp.resp.kind = "html") =>
        LET d == tp.resp.doc
        IN  /\ (\/ ~d.section
                \/ ~d.span
                \/ \A k \in 1..Len(d.main) : IsSpace(d.main[k])
                \/ \A k \in 1..Len(d.frac) : IsSpace(d.frac[k]))
                  => (tp.res.price = Null /\ TitleKept)
            /\ (d.title.kind = "null" /\ d.section /\ d.span /\ AllDigits(d.main) /\ AllDigits(d.frac))
                  => (tp.res.price.kind = "num" /\ tp.res.title = NullText)

C9_Witness ==
    /\ Returned
    /\ tp.resp.kind = "html"
    /\ tp.resp.doc.section
    /\ tp.resp.doc.span
    /\ tp.resp.doc.title = Text(<<"a">>)
    /\ tp.resp.doc.main = <<"3", "8">>
    /\ tp.resp.doc.frac = <<" ">>
    /\ tp.res.price = Null
    /\ tp.res.title = Text(<<"a">>)

\* C10: with non-empty integer part and fraction part, the price is the
\* decimal value of "{integer part}.{fraction part}" when both are texts
\* of digits, and null when that text is not a number.
C10_PriceComposition ==
    (Returned /\ tp.resp.kind = "html" /\ tp.resp.doc.section /\ tp.resp.doc.span) =>
        LET int == Trim(tp.resp.doc.main)
            frac == Trim(tp.resp.doc.frac)
        IN  (int # <<>> /\ frac # <<>>) =>
                IF AllDigits(int) /\ AllDigits(frac)
                THEN IsDecimalValue(tp.res.price, int, frac)
                ELSE tp.res.price = Null

\* C14: the id of a result is a function of the text of the url and of
\* nothing else: two results for one url have one id, whatever axios.get
\* answered, and two results for urls that differ have ids that differ.
C14_IdOfUrlOnly ==
    \A a, b \in seen :
        /\ a[1] = b[1] => a[2] = b[2]
        /\ a[1] # b[1] => a[2] # b[2]

C14_Witness ==
    /\ \E a, b \in seen : a[1] = b[1] /\ a[3] = "html" /\ b[3] = "error"
    /\ \E a, b \in seen : a[1] = "u1" /\ b[1] = "u1/"

----------------------------------------------------------------------------
(* Properties of trackerJob *)

\* the run has computed productsToTrack
Tracking(j) == j.pc \in {"fetching", "creating", "resolved"}

RowsOfRun(r) == {n \in 1..Len(prices) : prices[n].run = r}

Outcomes(j, o) == {k \in 1..Len(j.log) : j.log[k].outcome = o}

\* C1: the store never holds two samples that are not deleted for the
\* same product and the same calendar day.
C1_OneSamplePerPeriod ==
    \A a, b \in 1..Len(prices) :
        (a # b /\ ~prices[a].deleted /\ ~prices[b].deleted
           /\ prices[a].product_id = prices[b].product_id)
        => Day(prices[a].date) # Day(prices[b].date)

\* C2: when a run starts after an earlier run is over, a product for which
\* the earlier run persisted a sample in the day of the later run's price
\* listing is not in the later run's productsToTrack.
C2_IdempotentWithinPeriod ==
    \A r \in Jobs : Tracking(job[r]) =>
        \A k \in job[r].prior : \A n \in RowsOfRun(k) :
            Day(prices[n].date) = Day(job[r].qdate)
            => prices[n].product_id \notin Ids(job[r].toTrack)

\* C3: a throwing extraction or a failing createPrice for one product does
\* not end the run: the products of productsToTrack are attempted one by
\* one to the last, a non-null price always leads to a createPrice call,
\* and the run is rejected only by a failed listing.
C3_FailureIsolation ==
    \A r \in Jobs :
        LET j == job[r]
        IN  /\ j.pc = "rejected" => (j.err \in {"getAll", "getPrices"} /\ j.log = <<>>)
            /\ j.pc \in {"fetching", "creating"} => (j.i \in 1..Len(j.toTrack) /\ Len(j.log) = j.i - 1)
            /\ j.pc = "resolved" => Len(j.log) = Len(j.toTrack)
            /\ \A k \in 1..Len(j.log) :
                 /\ k <= Len(j.toTrack)
                 /\ j.log[k].id = j.toTrack[k].id
                 /\ j.log[k].price # Null => j.log[k].outcome \in {"created", "createFailed"}

C3_Witness ==
    \E r \in Jobs :
        /\ job[r].pc = "resolved"
        /\ Len(job[r].log) = 3
        /\ job[r].log[1].outcome = "threw"
        /\ job[r].log[2].outcome = "createFailed"
        /\ job[r].log[3].outcome = "created"
        /\ \E n \in RowsOfRun(job[r].run) : prices[n].product_id = job[r].toTrack[3].id

\* C4: a run whose product listing or price listing failed is rejected,
\* has extracted nothing and has persisted nothing.
C4_PreconditionFatal ==
    \A r \in Jobs :
        job[r].err # "none" =>
            /\ job[r].pc = "rejected"
            /\ job[r].log = <<>>
            /\ job[r].toTrack = <<>>
            /\ RowsOfRun(job[r].run) = {}

C4_Witness ==
    \E r \in Jobs :
        /\ job[r].err = "getPrices"
        /\ job[r].pc = "rejected"
        /\ Len(job[r].products) = 3
        /\ prices # <<>>

\* C5: productsToTrack holds exactly the listed products whose id is the
\* product_id of no loaded sample, once each and in the order of the
\* listing, and the run processes them in that order.
C5_ProductsToTrack ==
    \A r \in Jobs : Tracking(job[r]) =>
        LET j == job[r]
            loadedIds == {j.prices[k].product_id : k \in 1..Len(j.prices)}
            kept == {n \in 1..Len(j.products) : j.products[n].id \notin loadedIds}
        IN  /\ Len(j.toTrack) = Cardinality(kept)
            /\ \A n \in kept : \E k \in 1..Len(j.toTrack) : j.toTrack[k] = j.products[n]
            /\ \A k \in 1..Len(j.toTrack) : \E n \in kept : j.toTrack[k] = j.products[n]
            /\ \A k1, k2 \in 1..Len(j.toTrack) : k1 < k2 =>
                 \E n1, n2 \in kept : /\ n1 < n2
                                      /\ j.toTrack[k1] = j.products[n1]
                                      /\ j.toTrack[k2] = j.products[n2]
            /\ \A k \in 1..Len(j.log) : k <= Len(j.toTrack) /\ j.log[k].id = j.toTrack[k].id

C5_Witness ==
    \E r \in Jobs :
        /\ job[r].pc = "resolved"
        /\ Len(job[r].products) = 3
        /\ Len(job[r].prices) = 1
        /\ job[r].prices[1].product_id = job[r].products[2].id
        /\ job[r].toTrack = <<job[r].products[1], job[r].products[3]>>
        /\ Len(job[r].log) = 2

\* C6: the job writes a row only for a non-null scraped price: every row
\* written by a run has a price, a product whose price came out null got
\* no createPrice call, and a run has written as many rows as its
\* createPrice calls that succeeded.
C6_NoSampleWithoutPrice ==
    /\ \A n \in 1..Len(prices) : prices[n].run # 0 => prices[n].price.kind = "num"
    /\ \A r \in Jobs :
         /\ \A k \in 1..Len(job[r].log) :
              job[r].log[k].price = Null => job[r].log[k].outcome \in {"skipped", "threw"}
         /\ job[r].run # 0 =>
              Cardinality(RowsOfRun(job[r].run)) = Cardinality(Outcomes(job[r], "created"))

C6_Witness ==
    \E r \in Jobs :
        /\ job[r].pc = "resolved"
        /\ Outcomes(job[r], "skipped") # {}
        /\ Outcomes(job[r], "created") # {}
        /\ Cardinality(RowsOfRun(job[r].run)) = 1

\* the extractions of a run that have started and have not ended
InFlight(j) == Len(j.calls) - Len(j.log)

\* C13: a run takes its products strictly one after the other: at most
\* one extraction is in flight, one is in flight exactly while the run
\* waits for a fetch or for createPrice, it is the extraction of the
\* product the loop is at, and the products before it have all ended, in
\* the order they were started.
C13_StrictlySequential ==
    \A r \in Jobs :
        LET j == job[r]
        IN  /\ InFlight(j) \in {0, 1}
            /\ InFlight(j) = 1 <=> j.pc \in {"fetching", "creating"}
            /\ InFlight(j) = 1 => j.calls[Len(j.calls)] = j.i
            /\ \A k \in 1..Len(j.log) :
                 /\ k <= Len(j.calls)
                 /\ j.log[k].id = j.toTrack[j.calls[k]].id

C13_Witness ==
    \E r \in Jobs :
        /\ job[r].pc = "fetching"
        /\ Len(job[r].log) = 2
        /\ job[r].log[2].outcome = "created"
        /\ job[r].calls = <<1, 2, 3>>

\* C17: the row a run inserts carries the id of the product the loop is
\* at, the price and the date of the result trackPrice returned for it,
\* and the currency 'EUR'; the date is the time trackPrice was called.
C17_SampleFields ==
    [][\A r \in Jobs :
         (job[r].pc = "creating" /\ job'[r] # job[r] /\ prices' # prices) =>
             LET j == job[r]
                 row == prices'[Len(prices')]
             IN  /\ prices' = Append(prices, row)
                 /\ row.run = j.run
                 /\ row.product_id = j.toTrack[j.i].id
                 /\ row.price = j.res.price
                 /\ row.currency = "EUR"
                 /\ row.date = j.res.date
                 /\ row.date = j.date0]_vars

C17_Witness ==
    \E n \in 1..Len(prices), r \in Jobs :
        /\ prices[n].run = job[r].run
        /\ prices[n].run # 0
        /\ prices[n].date < clock
        /\ prices[n].currency = "EUR"
        /\ prices[n].price = Num(389, 1)
        /\ prices[n].product_id = Sha256Hex("u2")

\* C18: no retry.  trackPrice is called at most once for each product of
\* productsToTrack, in order, and exactly once when the run resolves; a
\* run writes at most one row for a product, and none for a product
\* whose extraction gave no price.
C18_NoRetry ==
    \A r \in Jobs :
        LET j == job[r]
            rows == RowsOfRun(j.run)
        IN  /\ Len(j.calls) <= Len(j.toTrack)
            /\ \A k \in 1..Len(j.calls) : j.calls[k] = k
            /\ j.pc = "resolved" => Len(j.calls) = Len(j.toTrack)
            /\ j.run # 0 =>
                 /\ Cardinality(rows) <= Len(j.calls)
                 /\ \A a, b \in rows : a # b => prices[a].product_id # prices[b].product_id
                 /\ \A k \in 1..Len(j.log) : j.log[k].price = Null =>
                      \A a \in rows : prices[a].product_id # j.log[k].id

C18_Witness ==
    \E r \in Jobs :
        /\ job[r].pc = "resolved"
        /\ job[r].calls = <<1, 2, 3>>
        /\ job[r].log[1].outcome = "threw"
        /\ job[r].log[2].outcome = "skipped"
        /\ job[r].log[3].outcome = "created"
        /\ Cardinality(RowsOfRun(job[r].run)) = 1

\* the rows of a table that are not soft-deleted
Active(table) == {table[n] : n \in {n \in 1..Len(table) : ~table[n].deleted}}

\* C20: what a run lists is rows that are not soft-deleted: its products
\* and its prices are active rows of the tables, it calls trackPrice only
\* for such products, and the rows it writes are for such products.
C20_SoftDeletedNotTracked ==
    \A r \in Jobs :
        LET j == job[r]
        IN  /\ \A k \in 1..Len(j.products) : j.products[k] \in Active(products)
            /\ \A k \in 1..Len(j.prices) : j.prices[k] \in Active(prices)
            /\ \A k \in 1..Len(j.toTrack) : j.toTrack[k] \in Active(products)
            /\ \A k \in 1..Len(j.calls) : ~j.toTrack[j.calls[k]].deleted
            /\ j.run # 0 => \A a \in RowsOfRun(j.run) :
                 \E k \in 1..Len(j.products) : /\ j.products[k].id = prices[a].product_id
                                               /\ ~j.products[k].deleted

C20_Witness ==
    \E r \in Jobs :
        /\ job[r].pc = "resolved"
        /\ \E n \in 1..Len(products) : products[n].deleted
        /\ Len(job[r].products) = 1
        /\ Len(job[r].log) = 1
        /\ job[r].log[1].outcome = "created"
        /\ Cardinality(RowsOfRun(job[r].run)) = 1

----------------------------------------------------------------------------
(* Properties of POST /api/products *)

\* C16: a request for the url of an active product is answered 400 and
\* nothing else: a request past getByUrl found no active product with its
\* url, and a request answered 400 has called neither trackPrice nor
\* createProduct nor createPrice, and the products table is what it was
\* when the request arrived and so are the rows requests have written.
C16_DuplicateUrlRejected ==
    /\ post.existing => (post.pc = "responded" /\ post.status = 400)
    /\ post.status = 400 =>
         /\ post.existing
         /\ post.res = Pending
         /\ post.date0 = NoDate
         /\ post.product = NoProduct
         /\ Len(products) = post.products0
         /\ Cardinality(PostRows) = post.prices0

C16_Witness ==
    /\ post.status = 400
    /\ post.url = "u2"
    /\ Len(products) = 3
    /\ prices # <<>>

\* the rows of run r that repeat, product and date, a row of another run
Repeats(r) ==
    {<<a, b>> \in RowsOfRun(r) \X {n \in 1..Len(prices) : prices[n].run \notin {0, r}} :
        /\ prices[a].product_id = prices[b].product_id
        /\ prices[a].date = prices[b].date}

\* C15: nothing keeps a run from starting while another is in progress,
\* and two such runs can each write a row for one product with one and
\* the same date; rows of two runs repeat each other this way only when
\* the earlier run was not over when the later one started.
C15_OverlapDuplicates ==
    \A r \in Jobs : \A ab \in Repeats(job[r].run) :
        prices[ab[2]].run < job[r].run => prices[ab[2]].run \notin job[r].prior

C15_Witness ==
    \E r, q \in Jobs :
        /\ job[q].run < job[r].run
        /\ job[q].run \notin job[r].prior
        /\ job[q].toTrack = job[r].toTrack
        /\ \E ab \in Repeats(job[r].run) :
             /\ prices[ab[2]].run = job[q].run
             /\ Day(prices[ab[1]].date) = Day(job[r].qdate)

\* the run in place r waits for a fetch and the step settles no fetch of it
NoFetchSettled(r) ==
    /\ job[r].pc = "fetching"
    /\ job'[r].run = job[r].run
    /\ job'[r].fetched = job[r].fetched

\* C19: when every call a run waits for is answered, a run in progress
\* comes to an end; and as long as the fetch a run waits for has not
\* settled, the run stays where it is: no other product is taken, no row
\* is written by it, it does not end.
C19_RunCompletes ==
    /\ \A r \in Jobs : Running(job[r]) ~> ~Running(job[r])
    /\ [][\A r \in Jobs : NoFetchSettled(r) =>
            /\ job'[r] = job[r]
            /\ RowsOfRun(job[r].run)' = RowsOfRun(job[r].run)]_vars

C19_Witness ==
    \E r \in Jobs :
        /\ job[r].pc = "resolved"
        /\ job[r].fetched = 2
        /\ Len(job[r].log) = 3
        /\ clock = MaxClock

----------------------------------------------------------------------------
(* Properties of GET /api/products *)

\* the callbacks that have returned
Enriched == {k \in 1..Len(get.chain) : get.chain[k].pc = "done"}

\* v, of at most two decimals, is one of the values of two decimals
\* nearest to 100 * (l - p) / p
IsRoundedPercent(v, l, p) ==
    /\ v.kind = "num"
    /\ v.e <= 2
    /\ LET scaled == v.m * Pow10(2 - v.e)
           num == 10000 * (l.m * Pow10(p.e) - p.m * Pow10(l.e))
           den == p.m * Pow10(l.e)
           off == scaled * den - num
       IN  2 * (IF off >= 0 THEN off ELSE 0 - off) <= (IF den >= 0 THEN den ELSE 0 - den)

\* C11: priceChangeRate is null exactly when there is no latest row or no
\* previous row or the previous price is null or 0; otherwise it is
\* 100 * (latest.price - previous.price) / previous.price rounded to two
\* decimals, and it is a value in every case.
C11_RateOfChange ==
    \A k \in Enriched :
        LET c == get.chain[k]
            unavailable == \/ c.latestPrice = NoRow
                           \/ c.previousPrice = NoRow
                           \/ prices[c.previousPrice].price = Null
                           \/ prices[c.previousPrice].price = Num(0, 0)
        IN  /\ c.priceChangeRate.kind \in {"null", "num"}
            /\ c.priceChangeRate = Null <=> unavailable
            /\ (~unavailable /\ prices[c.latestPrice].price # Null) =>
                 IsRoundedPercent(c.priceChangeRate, prices[c.latestPrice].price,
                                  prices[c.previousPrice].price)

C11_Witness ==
    \E k \in Enriched :
        /\ get.status = 200
        /\ get.chain[k].latestPrice # NoRow
        /\ get.chain[k].previousPrice # NoRow
        /\ prices[get.chain[k].latestPrice].price = Num(20, 0)
        /\ prices[get.chain[k].previousPrice].price = Num(3, 0)
        /\ get.chain[k].priceChangeRate = Num(56667, 2)

\* C12: latest is the first and previous the second row of the product's
\* rows, soft-deleted ones left out, in an order of descending date:
\* latest is null when there is no row and is a row of the greatest date
\* otherwise; previous is null when there are fewer than two rows and
\* otherwise a row with one row of its date or later before it and
\* every other row of its date or earlier.
C12_LatestAndPrevious ==
    \A k \in 1..Len(get.chain) :
        LET c == get.chain[k]
            rows == SeriesOf(prices, get.products[k].id)
        IN  /\ c.pc \in {"previous", "done"} =>
                 /\ c.latestPrice = NoRow <=> rows = {}
                 /\ c.latestPrice # NoRow =>
                      /\ c.latestPrice \in rows
                      /\ \A n \in rows : prices[n].date <= prices[c.latestPrice].date
            /\ c.pc = "done" =>
                 /\ c.previousPrice = NoRow <=> Cardinality(rows) < 2
                 /\ c.previousPrice # NoRow =>
                      /\ c.previousPrice \in rows
                      /\ \E first \in rows \ {c.previousPrice} :
                           /\ prices[first].date >= prices[c.previousPrice].date
                           /\ \A n \in rows \ {first, c.previousPrice} :
                                prices[n].date <= prices[c.previousPrice].date

C12_Witness ==
    \E k \in Enriched :
        /\ Len(prices) = 3
        /\ get.chain[k].latestPrice = 3
        /\ get.chain[k].previousPrice = 1
        /\ prices[2].deleted
        /\ prices[2].date > prices[1].date
        /\ prices[2].product_id = prices[1].product_id

----------------------------------------------------------------------------
(* Frame of trackerJob *)

\* C21: a step of a run of trackerJob leaves the products table as it is
\* and leaves every row of the prices table as it is, product_id, price,
\* currency and date: the table after the step is the table before it,
\* or that table with one row added at the end.
C21_RunOnlyAddsSamples ==
    [][job' # job =>
          /\ products' = products
          /\ Len(prices') \in {Len(prices), Len(prices) + 1}
          /\ SubSeq(prices', 1, Len(prices)) = prices]_vars

C21_Witness ==
    /\ Len(prices) = 2
    /\ prices[1].run = 1
    /\ prices[2].run = 2
    /\ prices[1].product_id = prices[2].product_id
    /\ prices[1].date < prices[2].date
    /\ Len(products) = 3

----------------------------------------------------------------------------
(* GET /api/products while samples are inserted *)

\* C22: the latest and the previous row reported for a product are two
\* rows, previous is not newer than latest, and no row of the product
\* that was in the table when latest was read lies between them in date.
C22_TwoDifferentSamples ==
    \A k \in Enriched :
        LET c == get.chain[k]
            rows == SeriesOf(prices, get.products[k].id)
        IN  (c.latestPrice # NoRow /\ c.previousPrice # NoRow) =>
                /\ c.latestPrice # c.previousPrice
                /\ prices[c.previousPrice].date <= prices[c.latestPrice].date
                /\ \A n \in rows \ {c.latestPrice, c.previousPrice} :
                     ~(/\ prices[c.previousPrice].date < prices[n].date
                       /\ prices[n].date < prices[c.latestPrice].date)

====
